---------------------------- MODULE Spec2Model ----------------------------
(***************************************************************************)
(* Model of ai_user/settings/base.py: the Settings command handlers        *)
(* `parameters`, `forget`, `add`, `remove` and `percent`.                  *)
(*                                                                         *)
(* Text is a sequence of one-character strings.  Python values are tagged  *)
(* records [t, v]: None, bool, int, float (NaN, Infinity), str, list and   *)
(* dict (a sequence of <<key, value>> pairs in insertion order).           *)
(***************************************************************************)
EXTENDS Integers, Sequences, FiniteSets, TLC

(***************************************************************************)
(* Bounds of the model.                                                    *)
(***************************************************************************)
NumGuilds == 2
NumChannels == 2
NumTasks == 2
MaxInvocations == 3
MaxTime == 3

Guilds == 1..NumGuilds
Channels == 1..NumChannels
Tasks == 1..NumTasks

(***************************************************************************)
(* Characters.                                                             *)
(***************************************************************************)
BT == "BACKTICK"
QT == "\""
NL == "\n"
SP == " "
Fence == <<BT, BT, BT>>
FenceJson == <<BT, BT, BT, "j", "s", "o", "n">>
DigitChars == <<"0", "1", "2", "3", "4", "5", "6", "7", "8", "9">>

NaNLit == <<"N", "a", "N">>
InfinityLit == <<"I", "n", "f", "i", "n", "i", "t", "y">>

IsDigit(c) == \E i \in 1..Len(DigitChars) : DigitChars[i] = c
DigitVal(c) == (CHOOSE i \in 1..Len(DigitChars) : DigitChars[i] = c) - 1
IsWS(c) == c \in {SP, NL}

(***************************************************************************)
(* Python values.                                                          *)
(***************************************************************************)
None == [t |-> "NoneType", v |-> <<>>]
PyBool(b) == [t |-> "bool", v |-> <<b>>]
PyInt(n) == [t |-> "int", v |-> <<n>>]
PyFloat(name) == [t |-> "float", v |-> <<name>>]
PyStr(s) == [t |-> "str", v |-> s]
PyList(xs) == [t |-> "list", v |-> xs]
PyDict(pairs) == [t |-> "dict", v |-> pairs]

(***************************************************************************)
(* str methods.                                                            *)
(***************************************************************************)
\* s[i:i+len(p)] == p, with i counted from 1
MatchAt(s, i, p) ==
    /\ i + Len(p) - 1 <= Len(s)
    /\ \A k \in 1..Len(p) : s[i + k - 1] = p[k]

\* str.startswith
startswith(s, p) == MatchAt(s, 1, p)

\* str.replace(p, ""): every non-overlapping occurrence, leftmost first
RECURSIVE RemoveAll(_, _)
RemoveAll(s, p) ==
    IF Len(s) < Len(p) THEN s
    ELSE IF MatchAt(s, 1, p) THEN RemoveAll(SubSeq(s, Len(p) + 1, Len(s)), p)
    ELSE <<Head(s)>> \o RemoveAll(Tail(s), p)

\* json_block.replace("```json", "").replace("```", "")
StripFence(s) == RemoveAll(RemoveAll(s, FenceJson), Fence)

(***************************************************************************)
(* json.loads: the scanner of Python's json.decoder, over the characters   *)
(* of the model (no backslash escapes, integers only).  allow_constants    *)
(* is TRUE for Python's decoder, which also accepts the literals NaN,      *)
(* Infinity and -Infinity that the JSON grammar (RFC 8259) does not have.  *)
(***************************************************************************)
Fail == [ok |-> FALSE, val |-> None, end |-> 0]
Ok(val, end) == [ok |-> TRUE, val |-> val, end |-> end]

\* WHITESPACE.match(s, i).end()
RECURSIVE SkipWS(_, _)
SkipWS(s, i) == IF i <= Len(s) /\ IsWS(s[i]) THEN SkipWS(s, i + 1) ELSE i

\* py_scanstring with strict=True; i is the index after the opening quote
RECURSIVE scanstring(_, _, _)
scanstring(s, i, acc) ==
    IF i > Len(s) THEN Fail
    ELSE IF s[i] = QT THEN Ok(PyStr(acc), i + 1)
    ELSE IF s[i] = NL THEN Fail
    ELSE scanstring(s, i + 1, Append(acc, s[i]))

\* the digits of NUMBER_RE's integer part from index i on
RECURSIVE ScanDigits(_, _, _)
ScanDigits(s, i, n) ==
    IF i <= Len(s) /\ IsDigit(s[i]) THEN ScanDigits(s, i + 1, 10 * n + DigitVal(s[i]))
    ELSE [n |-> n, end |-> i]

\* NUMBER_RE = (-?(?:0|[1-9]\d*)), integers only
match_number(s, i) ==
    LET neg == s[i] = "-"
        j == IF neg THEN i + 1 ELSE i
    IN  IF j > Len(s) \/ ~IsDigit(s[j]) THEN Fail
        ELSE IF s[j] = "0" THEN Ok(PyInt(0), j + 1)
        ELSE LET d == ScanDigits(s, j, 0)
             IN  Ok(PyInt(IF neg THEN 0 - d.n ELSE d.n), d.end)

\* dict(pairs): a repeated key keeps its first position and its last value
DictSet(pairs, key, val) ==
    IF \E k \in 1..Len(pairs) : pairs[k][1] = key
    THEN [k \in 1..Len(pairs) |->
            IF pairs[k][1] = key THEN <<key, val>> ELSE pairs[k]]
    ELSE Append(pairs, <<key, val>>)

RECURSIVE scan_once(_, _, _)
RECURSIVE ObjectMembers(_, _, _, _)
RECURSIVE ArrayItems(_, _, _, _)

\* JSONObject's loop; i is the index after the opening quote of a key
ObjectMembers(s, i, pairs, allow_constants) ==
    LET k == scanstring(s, i, <<>>)
        c == SkipWS(s, k.end)
        v == scan_once(s, SkipWS(s, c + 1), allow_constants)
        d == SkipWS(s, v.end)
        e == SkipWS(s, d + 1)
        new == DictSet(pairs, k.val.v, v.val)
    IN  IF ~k.ok THEN Fail
        ELSE IF c > Len(s) \/ s[c] # ":" THEN Fail
        ELSE IF ~v.ok THEN Fail
        ELSE IF d > Len(s) THEN Fail
        ELSE IF s[d] = "}" THEN Ok(PyDict(new), d + 1)
        ELSE IF s[d] # "," THEN Fail
        ELSE IF e > Len(s) \/ s[e] # QT THEN Fail
        ELSE ObjectMembers(s, e + 1, new, allow_constants)

\* JSONObject; i is the index after "{"
JSONObject(s, i, allow_constants) ==
    LET j == SkipWS(s, i)
    IN  IF j > Len(s) THEN Fail
        ELSE IF s[j] = "}" THEN Ok(PyDict(<<>>), j + 1)
        ELSE IF s[j] # QT THEN Fail
        ELSE ObjectMembers(s, j + 1, <<>>, allow_constants)

\* JSONArray's loop; i is the index of the next value
ArrayItems(s, i, items, allow_constants) ==
    LET v == scan_once(s, i, allow_constants)
        d == SkipWS(s, v.end)
    IN  IF ~v.ok THEN Fail
        ELSE IF d > Len(s) THEN Fail
        ELSE IF s[d] = "]" THEN Ok(PyList(Append(items, v.val)), d + 1)
        ELSE IF s[d] # "," THEN Fail
        ELSE ArrayItems(s, SkipWS(s, d + 1), Append(items, v.val), allow_constants)

\* JSONArray; i is the index after "["
JSONArray(s, i, allow_constants) ==
    LET j == SkipWS(s, i)
    IN  IF j > Len(s) THEN Fail
        ELSE IF s[j] = "]" THEN Ok(PyList(<<>>), j + 1)
        ELSE ArrayItems(s, j, <<>>, allow_constants)

\* py_make_scanner's _scan_once
scan_once(s, i, allow_constants) ==
    IF i > Len(s) THEN Fail
    ELSE IF s[i] = QT THEN scanstring(s, i + 1, <<>>)
    ELSE IF s[i] = "{" THEN JSONObject(s, i + 1, allow_constants)
    ELSE IF s[i] = "[" THEN JSONArray(s, i + 1, allow_constants)
    ELSE IF MatchAt(s, i, <<"n", "u", "l", "l">>) THEN Ok(None, i + 4)
    ELSE IF MatchAt(s, i, <<"t", "r", "u", "e">>) THEN Ok(PyBool(TRUE), i + 4)
    ELSE IF MatchAt(s, i, <<"f", "a", "l", "s", "e">>) THEN Ok(PyBool(FALSE), i + 5)
    ELSE IF match_number(s, i).ok THEN match_number(s, i)
    ELSE IF allow_constants /\ MatchAt(s, i, NaNLit)
         THEN Ok(PyFloat("nan"), i + 3)
    ELSE IF allow_constants /\ MatchAt(s, i, InfinityLit)
         THEN Ok(PyFloat("inf"), i + 8)
    ELSE IF allow_constants /\ MatchAt(s, i, <<"-">> \o InfinityLit)
         THEN Ok(PyFloat("-inf"), i + 9)
    ELSE Fail

\* JSONDecoder.decode: one value, whitespace around it, nothing after it
Decode(s, allow_constants) ==
    LET r == scan_once(s, SkipWS(s, 1), allow_constants)
    IN  IF r.ok /\ SkipWS(s, r.end) = Len(s) + 1 THEN r ELSE Fail

\* json.loads(s); ok = FALSE stands for json.JSONDecodeError
json_loads(s) == Decode(s, TRUE)

\* s is a text of the JSON grammar (RFC 8259): the decoder without its constants
IsValidJSON(s) == Decode(s, FALSE).ok


(***************************************************************************)
(* json.dumps(data, indent=4).                                             *)
(***************************************************************************)
RECURSIVE IntDigits(_)
IntDigits(n) ==
    IF n < 10 THEN <<DigitChars[n + 1]>>
    ELSE IntDigits(n \div 10) \o <<DigitChars[(n % 10) + 1]>>

\* int.__repr__
IntToStr(n) == IF n < 0 THEN <<"-">> \o IntDigits(0 - n) ELSE IntDigits(n)

\* float.__repr__ of the values the decoder's constants give
FloatToStr(name) ==
    IF name = "nan" THEN NaNLit
    ELSE IF name = "inf" THEN InfinityLit
    ELSE <<"-">> \o InfinityLit

RECURSIVE Spaces(_)
Spaces(n) == IF n = 0 THEN <<>> ELSE <<SP>> \o Spaces(n - 1)

\* '\n' + ' ' * (indent * level), indent = 4
NewlineIndent(level) == <<NL>> \o Spaces(4 * level)

RECURSIVE iterencode(_, _)
RECURSIVE EncodeItems(_, _, _, _)

\* the items of a dict (is_dict) or of a list from index k on
EncodeItems(items, k, level, is_dict) ==
    IF k > Len(items) THEN <<>>
    ELSE (IF k = 1 THEN <<>> ELSE <<",">>)
         \o NewlineIndent(level)
         \o (IF is_dict
             THEN <<QT>> \o items[k][1] \o <<QT, ":", SP>>
                  \o iterencode(items[k][2], level)
             ELSE iterencode(items[k], level))
         \o EncodeItems(items, k + 1, level, is_dict)

\* JSONEncoder(indent=4).iterencode, joined
iterencode(o, level) ==
    IF o.t = "NoneType" THEN <<"n", "u", "l", "l">>
    ELSE IF o.t = "bool"
         THEN (IF o.v[1] THEN <<"t", "r", "u", "e">> ELSE <<"f", "a", "l", "s", "e">>)
    ELSE IF o.t = "int" THEN IntToStr(o.v[1])
    ELSE IF o.t = "float" THEN FloatToStr(o.v[1])
    ELSE IF o.t = "str" THEN <<QT>> \o o.v \o <<QT>>
    ELSE IF o.t = "list"
         THEN IF o.v = <<>> THEN <<"[", "]">>
              ELSE <<"[">> \o EncodeItems(o.v, 1, level + 1, FALSE)
                   \o NewlineIndent(level) \o <<"]">>
    ELSE IF o.v = <<>> THEN <<"{", "}">>
         ELSE <<"{">> \o EncodeItems(o.v, 1, level + 1, TRUE)
              \o NewlineIndent(level) \o <<"}">>

json_dumps(data) == iterencode(data, 0)

(***************************************************************************)
(* The command texts the model draws json_block from.                      *)
(***************************************************************************)
KwReset == <<"r", "e", "s", "e", "t">>
KwClear == <<"c", "l", "e", "a", "r">>
KwShow == <<"s", "h", "o", "w">>
KwList == <<"l", "i", "s", "t">>

\* JSON objects an owner may mean to store
ObjA == PyDict(<< <<<<"a">>, PyInt(1)>> >>)
ObjB == PyDict(<< <<<<"b">>, PyList(<<PyBool(TRUE), None>>)>> >>)
ObjEmpty == PyDict(<<>>)
ObjFence == PyDict(<< <<<<"a">>, PyStr(Fence)>> >>)
ObjFenceJson == PyDict(<< <<<<"a">>, PyStr(FenceJson)>> >>)
Objects == {ObjA, ObjB, ObjEmpty, ObjFence, ObjFenceJson}

RECURSIVE JSONText(_)
RECURSIVE JSONTextItems(_, _, _)

\* the items of a dict (is_dict) or of a list from index k on, comma separated
JSONTextItems(items, k, is_dict) ==
    IF k > Len(items) THEN <<>>
    ELSE (IF k = 1 THEN <<>> ELSE <<",">>)
         \o (IF is_dict
             THEN <<QT>> \o items[k][1] \o <<QT, ":">> \o JSONText(items[k][2])
             ELSE JSONText(items[k]))
         \o JSONTextItems(items, k + 1, is_dict)

\* the compact JSON text of a value, as an owner types it
JSONText(o) ==
    IF o.t = "NoneType" THEN <<"n", "u", "l", "l">>
    ELSE IF o.t = "bool"
         THEN (IF o.v[1] THEN <<"t", "r", "u", "e">> ELSE <<"f", "a", "l", "s", "e">>)
    ELSE IF o.t = "int" THEN IntToStr(o.v[1])
    ELSE IF o.t = "float" THEN FloatToStr(o.v[1])
    ELSE IF o.t = "str" THEN <<QT>> \o o.v \o <<QT>>
    ELSE IF o.t = "list" THEN <<"[">> \o JSONTextItems(o.v, 1, FALSE) \o <<"]">>
    ELSE <<"{">> \o JSONTextItems(o.v, 1, TRUE) \o <<"}">>

\* a text inside a code block: plain, tagged json, tagged json on lines of its own
FenceStyles == {"plain", "json", "json-lines"}
Fenced(style, text) ==
    IF style = "plain" THEN Fence \o text \o Fence
    ELSE IF style = "json" THEN FenceJson \o text \o Fence
    ELSE FenceJson \o <<NL>> \o text \o <<NL>> \o Fence

\* the styles the model sends each object in
StylesOf(o) ==
    IF o = ObjA THEN {"plain", "json-lines"}
    ELSE IF o = ObjB THEN {"json"}
    ELSE {"plain"}

ObjectBlocks == UNION {{Fenced(st, JSONText(o)) : st \in StylesOf(o)} : o \in Objects}

\* valid JSON texts that are no object
OtherJSONTexts ==
    { JSONText(PyInt(5)), JSONText(PyStr(<<"x">>)), JSONText(PyList(<<PyInt(1)>>)),
      JSONText(PyBool(TRUE)), JSONText(None) }

\* texts Python's decoder takes and the JSON grammar does not
ConstantTexts == { <<"{", QT, "a", QT, ":">> \o NaNLit \o <<"}">> }

\* texts that are no JSON
MalformedTexts ==
    { <<>>, <<"{", "a", ":", "1", "}">>, <<"{", QT, "a", QT, ":", "1", ",", "}">> }

FencedBlocks ==
    ObjectBlocks
    \cup {Fenced("plain", t) : t \in OtherJSONTexts \cup ConstantTexts \cup MalformedTexts}
    \cup {Fence \o JSONText(ObjA)}

Keywords == {KwReset, KwClear, KwShow, KwList}

\* texts that are no keyword and open no code block
UnfencedTexts ==
    { <<"R", "e", "s", "e", "t">>, JSONText(ObjA), <<"x">> \o Fenced("plain", JSONText(ObjA)) }

JsonBlocks == Keywords \cup FencedBlocks \cup UnfencedTexts

(***************************************************************************)
(* Replies.                                                                *)
(***************************************************************************)
NoReply == [via |-> "", content |-> "", title |-> "", warning |-> "", parameters |-> <<>>]
Send(content) == [NoReply EXCEPT !.via = "ctx.send", !.content = content]
ChannelSend(content) == [NoReply EXCEPT !.via = "ctx.channel.send", !.content = content]

\* json.loads of the stripped block, for every block of the model
Loaded == [b \in JsonBlocks |-> json_loads(StripFence(b))]

\* the values an invocation of the model can store or show
StoredValues == {None} \cup {Loaded[b].val : b \in JsonBlocks}

\* json.dumps(data, indent=4), for every such value
Dumped == [d \in StoredValues |-> json_dumps(d)]

\* the embed of lines 210-212 with the "Parameters" field of line 216 or 230
ParametersEmbed(data) ==
    [NoReply EXCEPT !.via = "ctx.send",
                    !.title = "Custom Parameters",
                    !.warning = "No checks were done to see if parameters were compatible",
                    !.parameters = Fence \o Dumped[data] \o Fence]

ResetReply == Send("Parameters reset to default")
\* line 220's message, up to its example of a code block
UsageReply == Send(":warning: Please use a code block")
InvalidReply == ChannelSend("Invalid JSON format!")

(***************************************************************************)
(* Settings.parameters                                                     *)
(***************************************************************************)
\* line 206 with 'clear' left out
ResetKeywordsResetOnly == {KwReset}
\* line 206
ResetKeywords == {KwReset, KwClear}

\* line 214 with 'list' left out
ShowKeywordsShowOnly == {KwShow}
\* line 214
ShowKeywords == {KwShow, KwList}

\* line 207 storing an empty dict for None
ResetValueEmptyDict == PyDict(<<>>)
\* line 207
ResetValue == None

\* line 219 as: "```" not in json_block
HasFenceAnywhere(json_block) ==
    \E i \in 1..Len(json_block) : MatchAt(json_block, i, Fence)
\* line 219
HasFence(json_block) == startswith(json_block, Fence)

\* config.guild(g).parameters.set(value)
Write(g, value) == [guild |-> g, key |-> "parameters", value |-> value]

\* line 226 moved out of the try block: the store is set whatever json.loads gave
SetWritesUnchecked(g, r) == <<Write(g, r.val)>>
\* the try block of lines 224-228; r is json.loads' result on the stripped block
SetWrites(g, r) == IF r.ok THEN <<Write(g, r.val)>> ELSE <<>>
SetReply(r) == IF r.ok THEN ParametersEmbed(r.val) ELSE InvalidReply

\* the store after the writes ws, in order
RECURSIVE ApplyWrites(_, _)
ApplyWrites(store, ws) ==
    IF ws = <<>> THEN store
    ELSE ApplyWrites([store EXCEPT ![Head(ws).guild] = Head(ws).value], Tail(ws))

\* one invocation in guild g on the store: its writes and its reply
parameters_run(store, g, json_block) ==
    LET r == Loaded[json_block]
        ws == IF json_block \in ResetKeywords THEN <<Write(g, ResetValue)>>
              ELSE IF json_block \in ShowKeywords THEN <<>>
              ELSE IF ~HasFence(json_block) THEN <<>>
              ELSE SetWrites(g, r)
        reply == IF json_block \in ResetKeywords THEN ResetReply
                 ELSE IF json_block \in ShowKeywords THEN ParametersEmbed(store[g])
                 ELSE IF ~HasFence(json_block) THEN UsageReply
                 ELSE SetReply(r)
    IN  [store |-> ApplyWrites(store, ws), writes |-> ws, reply |-> reply]

(***************************************************************************)
(* Settings.forget                                                         *)
(***************************************************************************)
Times == 1..MaxTime

\* lines 32-33 with the permission test dropped
AuthorisedAlways(manage_messages, public_forget_value) == TRUE
\* the negation of the condition of lines 32-33
Authorised(manage_messages, public_forget_value) ==
    manage_messages \/ public_forget_value

\* dict[key] = value
DictAssign(d, key, value) ==
    [k \in DOMAIN d \cup {key} |-> IF k = key THEN value ELSE d[k]]

(***************************************************************************)
(* Settings.add, Settings.remove, Settings.percent                         *)
(***************************************************************************)
Percents == {10, 90}

\* percent / 100
Ratio(percent) == <<percent, 100>>

\* channel.id in new_whitelist
InList(list, c) == \E k \in 1..Len(list) : list[k] = c

\* list.remove(c): the first occurrence goes
RECURSIVE ListRemove(_, _)
ListRemove(list, c) ==
    IF list = <<>> THEN <<>>
    ELSE IF Head(list) = c THEN Tail(list)
    ELSE <<Head(list)>> \o ListRemove(Tail(list), c)

Idle == [cmd |-> "idle", pc |-> "idle", guild |-> 0, arg |-> 0, new_whitelist |-> <<>>]

VARIABLES
    cfg_parameters,              \* config.guild(g).parameters
    last,                        \* the latest parameters invocation: guild, input, whether
                                 \* it came after a reset of the guild, writes, reply
    since_reset,                 \* per guild, whether the latest write to its parameters was a reset
    cfg_public_forget,           \* config.guild(g).public_forget
    override_prompt_start_time,  \* self.override_prompt_start_time, a dict keyed by guild id
    last_forget,                 \* the latest forget invocation and its reaction
    cfg_channels_whitelist,      \* config.guild(g).channels_whitelist
    channels_whitelist,          \* self.channels_whitelist
    cfg_reply_percent,           \* config.guild(g).reply_percent
    reply_percent,               \* self.reply_percent
    tasks,                       \* the running add, remove and percent invocations
    started,                     \* how many of them have been started
    acked                        \* per guild, the channels whose add was the latest to reply

params_vars == <<cfg_parameters, last, since_reset>>
forget_vars == <<cfg_public_forget, override_prompt_start_time, last_forget>>
whitelist_vars == <<cfg_channels_whitelist, channels_whitelist, cfg_reply_percent,
                    reply_percent, tasks, started, acked>>
vars == <<params_vars, forget_vars, whitelist_vars>>

NoInvocation == [guild |-> 0, json_block |-> <<>>, after_reset |-> FALSE,
                 writes |-> <<>>, reply |-> NoReply]
NoForget == [guild |-> 0, manage_messages |-> FALSE, created_at |-> 0, reaction |-> ""]

InitParameters ==
    /\ cfg_parameters = [g \in Guilds |-> None]
    /\ last = NoInvocation
    /\ since_reset = [g \in Guilds |-> FALSE]

InitForget ==
    /\ override_prompt_start_time = <<>>
    /\ last_forget = NoForget

\* the mirrors are loaded from the store; p is the percentage the guilds start with
InitWhitelist(p) ==
    /\ cfg_channels_whitelist = [g \in Guilds |-> <<>>]
    /\ channels_whitelist = cfg_channels_whitelist
    /\ cfg_reply_percent = [g \in Guilds |-> Ratio(p)]
    /\ reply_percent = cfg_reply_percent
    /\ tasks = [t \in Tasks |-> Idle]
    /\ started = 0
    /\ acked = [g \in Guilds |-> {}]

\* the cog once loaded, public_forget at its default
Init ==
    /\ InitParameters
    /\ InitForget
    /\ InitWhitelist(CHOOSE p \in Percents : TRUE)
    /\ cfg_public_forget = [g \in Guilds |-> FALSE]

\* the same, in guilds whose public_forget an admin has set either way
InitAnyPublicForget ==
    /\ InitParameters
    /\ InitForget
    /\ InitWhitelist(CHOOSE p \in Percents : TRUE)
    /\ cfg_public_forget \in [Guilds -> BOOLEAN]

\* One invocation.  Each path of the handler reaches the store at most once
\* (line 207, 215 or 226), so invocations interleaved at their awaits act on the
\* store as if run one after the other, in the order of those accesses.
parameters(g, json_block) ==
    LET out == parameters_run(cfg_parameters, g, json_block)
    IN  /\ cfg_parameters' = out.store
        /\ last' = [guild |-> g, json_block |-> json_block,
                    after_reset |-> since_reset[g],
                    writes |-> out.writes, reply |-> out.reply]
        /\ since_reset' =
             IF out.writes = <<>> THEN since_reset
             ELSE [since_reset EXCEPT ![g] = json_block \in ResetKeywords]
        /\ UNCHANGED <<forget_vars, whitelist_vars>>

\* One invocation: the read of public_forget (line 33), then lines 34-37 with no
\* await before the assignment.
forget(g, manage_messages, created_at) ==
    /\ IF ~Authorised(manage_messages, cfg_public_forget[g])
       THEN /\ last_forget' = [guild |-> g, manage_messages |-> manage_messages,
                               created_at |-> created_at, reaction |-> "cross_mark"]
            /\ UNCHANGED override_prompt_start_time
       ELSE /\ override_prompt_start_time' =
                 DictAssign(override_prompt_start_time, g, created_at)
            /\ last_forget' = [guild |-> g, manage_messages |-> manage_messages,
                               created_at |-> created_at, reaction |-> "check_mark"]
    /\ UNCHANGED <<cfg_public_forget, params_vars, whitelist_vars>>

\* a command message arrives and its handler is scheduled
Start(t, cmd, g, arg) ==
    /\ tasks[t].pc = "idle"
    /\ started < MaxInvocations
    /\ started' = started + 1
    /\ tasks' = [tasks EXCEPT ![t] = [cmd |-> cmd, pc |-> IF cmd = "percent" THEN "set" ELSE "get",
                                      guild |-> g, arg |-> arg, new_whitelist |-> <<>>]]
    /\ UNCHANGED <<cfg_channels_whitelist, channels_whitelist, cfg_reply_percent,
                   reply_percent, acked, params_vars, forget_vars>>

StartAdd(t, g, c) == Start(t, "add", g, c)
StartRemove(t, g, c) == Start(t, "remove", g, c)
StartPercent(t, g, p) == Start(t, "percent", g, p)

\* line 122 and line 143: await config.guild(ctx.guild).channels_whitelist()
GetWhitelist(t) ==
    /\ tasks[t].pc = "get"
    /\ tasks' = [tasks EXCEPT ![t].new_whitelist = cfg_channels_whitelist[tasks[t].guild],
                              ![t].pc = "set"]
    /\ UNCHANGED <<cfg_channels_whitelist, channels_whitelist, cfg_reply_percent,
                   reply_percent, started, acked, params_vars, forget_vars>>

\* lines 123-126: the membership test, the append and the store's set
AddSet(t) ==
    LET g == tasks[t].guild
        c == tasks[t].arg
        new == Append(tasks[t].new_whitelist, c)
    IN  /\ tasks[t].cmd = "add"
        /\ tasks[t].pc = "set"
        /\ IF InList(tasks[t].new_whitelist, c)
           THEN /\ tasks' = [tasks EXCEPT ![t] = Idle]
                /\ UNCHANGED cfg_channels_whitelist
           ELSE /\ cfg_channels_whitelist' = [cfg_channels_whitelist EXCEPT ![g] = new]
                /\ tasks' = [tasks EXCEPT ![t].new_whitelist = new, ![t].pc = "mirror"]
        /\ UNCHANGED <<channels_whitelist, cfg_reply_percent, reply_percent, started,
                       acked, params_vars, forget_vars>>

\* lines 144-147: the membership test, the remove and the store's set
RemoveSet(t) ==
    LET g == tasks[t].guild
        c == tasks[t].arg
        new == ListRemove(tasks[t].new_whitelist, c)
    IN  /\ tasks[t].cmd = "remove"
        /\ tasks[t].pc = "set"
        /\ IF ~InList(tasks[t].new_whitelist, c)
           THEN /\ tasks' = [tasks EXCEPT ![t] = Idle]
                /\ UNCHANGED cfg_channels_whitelist
           ELSE /\ cfg_channels_whitelist' = [cfg_channels_whitelist EXCEPT ![g] = new]
                /\ tasks' = [tasks EXCEPT ![t].new_whitelist = new, ![t].pc = "mirror"]
        /\ UNCHANGED <<channels_whitelist, cfg_reply_percent, reply_percent, started,
                       acked, params_vars, forget_vars>>

\* lines 127-128 and 148-149: the mirror's assignment, up to await ctx.embed_color()
MirrorWhitelist(t) ==
    /\ tasks[t].cmd \in {"add", "remove"}
    /\ tasks[t].pc = "mirror"
    /\ channels_whitelist' =
         [channels_whitelist EXCEPT ![tasks[t].guild] = tasks[t].new_whitelist]
    /\ tasks' = [tasks EXCEPT ![t].pc = "send"]
    /\ UNCHANGED <<cfg_channels_whitelist, cfg_reply_percent, reply_percent, started,
                   acked, params_vars, forget_vars>>

\* lines 129-131 and 150-152: the "whitelist is now" reply
SendWhitelist(t) ==
    LET g == tasks[t].guild
        c == tasks[t].arg
    IN  /\ tasks[t].cmd \in {"add", "remove"}
        /\ tasks[t].pc = "send"
        /\ acked' = [acked EXCEPT ![g] = IF tasks[t].cmd = "add" THEN @ \cup {c}
                                          ELSE @ \ {c}]
        /\ tasks' = [tasks EXCEPT ![t] = Idle]
        /\ UNCHANGED <<cfg_channels_whitelist, channels_whitelist, cfg_reply_percent,
                       reply_percent, started, params_vars, forget_vars>>

\* line 104: await config.guild(ctx.guild).reply_percent.set(percent / 100)
PercentSet(t) ==
    /\ tasks[t].cmd = "percent"
    /\ tasks[t].pc = "set"
    /\ cfg_reply_percent' = [cfg_reply_percent EXCEPT ![tasks[t].guild] = Ratio(tasks[t].arg)]
    /\ tasks' = [tasks EXCEPT ![t].pc = "mirror"]
    /\ UNCHANGED <<cfg_channels_whitelist, channels_whitelist, reply_percent, started,
                   acked, params_vars, forget_vars>>

\* lines 105-109: the mirror's assignment, up to await ctx.embed_color()
PercentMirror(t) ==
    /\ tasks[t].cmd = "percent"
    /\ tasks[t].pc = "mirror"
    /\ reply_percent' = [reply_percent EXCEPT ![tasks[t].guild] = Ratio(tasks[t].arg)]
    /\ tasks' = [tasks EXCEPT ![t].pc = "send"]
    /\ UNCHANGED <<cfg_channels_whitelist, channels_whitelist, cfg_reply_percent, started,
                   acked, params_vars, forget_vars>>

\* line 110: the reply
PercentSend(t) ==
    /\ tasks[t].cmd = "percent"
    /\ tasks[t].pc = "send"
    /\ tasks' = [tasks EXCEPT ![t] = Idle]
    /\ UNCHANGED <<cfg_channels_whitelist, channels_whitelist, cfg_reply_percent,
                   reply_percent, started, acked, params_vars, forget_vars>>

Parameters == \E g \in Guilds, json_block \in JsonBlocks : parameters(g, json_block)

Forget == \E g \in Guilds, manage_messages \in BOOLEAN, created_at \in Times :
              forget(g, manage_messages, created_at)

Whitelist ==
    \E t \in Tasks :
        \/ \E g \in Guilds, c \in Channels : StartAdd(t, g, c)
        \/ \E g \in Guilds, c \in Channels : StartRemove(t, g, c)
        \/ \E g \in Guilds, p \in Percents : StartPercent(t, g, p)
        \/ GetWhitelist(t)
        \/ AddSet(t)
        \/ RemoveSet(t)
        \/ MirrorWhitelist(t)
        \/ SendWhitelist(t)
        \/ PercentSet(t)
        \/ PercentMirror(t)
        \/ PercentSend(t)

Next == Parameters \/ Forget \/ Whitelist

\* every handler, in any order
Spec == Init /\ [][Next]_vars

\* the handlers share no state: each group is checked on its own
SpecParameters == Init /\ [][Parameters]_vars
SpecForget == InitAnyPublicForget /\ [][Forget]_vars
SpecWhitelist == Init /\ [][Whitelist]_vars

(***************************************************************************)
(* The claims.  Under SpecParameters every step that changes a variable is *)
(* one parameters invocation, of guild last'.guild on last'.json_block.    *)
(***************************************************************************)
\* the block opens with three backticks
OpensCodeBlock(b) == Len(b) >= 3 /\ b[1] = BT /\ b[2] = BT /\ b[3] = BT

\* the stripped block is a text of the JSON grammar, for every block of the model
ValidContent == [b \in JsonBlocks |-> IsValidJSON(StripFence(b))]

\* what `parameters show` sends when the stored value is data
Display(data) ==
    [via |-> "ctx.send", content |-> "", title |-> "Custom Parameters",
     warning |-> "No checks were done to see if parameters were compatible",
     parameters |-> Fence \o json_dumps(data) \o Fence]

\* every guild but g keeps its stored parameters in the step
OthersKept(g) == \A h \in Guilds \ {g} : cfg_parameters'[h] = cfg_parameters[h]

\* C1: in every reachable state the stored parameters of every guild are null
\* or a JSON object.
C1_StoredNullOrObject ==
    \A g \in Guilds : cfg_parameters[g] = None \/ cfg_parameters[g].t = "dict"

\* C2: an invocation on a fenced block whose stripped content is not valid JSON
\* writes nothing, leaves the store as it was and replies "Invalid JSON format!".
C2_InvalidJSONRejected ==
    [][ (OpensCodeBlock(last'.json_block) /\ ~ValidContent[last'.json_block])
        => /\ last'.writes = <<>>
           /\ cfg_parameters' = cfg_parameters
           /\ last'.reply = InvalidReply ]_vars

\* The same for the blocks json.loads rejects: the except branch of line 227.
C2_RejectedByLoads ==
    [][ (OpensCodeBlock(last'.json_block) /\ ~Loaded[last'.json_block].ok)
        => /\ last'.writes = <<>>
           /\ cfg_parameters' = cfg_parameters
           /\ last'.reply = InvalidReply ]_vars

\* C3: an invocation on an input that is no keyword (case-sensitively) and opens
\* no code block reports the usage error, writes nothing and leaves the store
\* as it was.
C3_UnfencedIsUsageError ==
    [][ (last'.json_block \notin {KwReset, KwClear, KwShow, KwList}
          /\ ~OpensCodeBlock(last'.json_block))
        => /\ last'.reply = UsageReply
           /\ last'.writes = <<>>
           /\ cfg_parameters' = cfg_parameters ]_vars

\* C3's case: the usage error in a guild that has parameters stored
C3_Witness ==
    /\ last.guild \in Guilds
    /\ last.json_block = JSONText(ObjA)
    /\ last.reply = UsageReply
    /\ cfg_parameters[last.guild] = ObjB

\* C4: an invocation on a valid JSON object O in a code block, tagged json or
\* not, stores exactly O in place of the prior value, and a show that follows
\* displays exactly O.
C4_RoundTrip ==
    [][ \A o \in Objects : \A st \in StylesOf(o) :
          last'.json_block = Fenced(st, JSONText(o))
          => /\ cfg_parameters'[last'.guild] = o
             /\ OthersKept(last'.guild)
             /\ parameters_run(cfg_parameters', last'.guild, KwShow).reply = Display(o) ]_vars

\* C5: reset sets the guild's stored parameters to null and replies with the
\* confirmation, and a show of a guild whose latest write was a reset displays
\* null.
C5_ResetThenShow ==
    [][ /\ last'.json_block = KwReset
           => /\ cfg_parameters'[last'.guild] = None
              /\ OthersKept(last'.guild)
              /\ last'.reply = ResetReply
        /\ (last'.json_block = KwShow /\ last'.after_reset)
           => last'.reply = Display(None) ]_vars

\* C5's case: a show right after a reset of a guild, while another guild keeps
\* its parameters
C5_Witness ==
    /\ last.guild \in Guilds
    /\ last.json_block = KwShow
    /\ last.after_reset
    /\ last.reply = Display(None)
    /\ \E h \in Guilds : cfg_parameters[h] = ObjA

\* C6: from any store, reset and clear give the same store and the same reply,
\* and either of them invoked after either of them leaves the store as it was.
C6_ResetClearEquivalent ==
    [][ /\ \A g \in Guilds :
             parameters_run(cfg_parameters, g, KwReset)
               = parameters_run(cfg_parameters, g, KwClear)
        /\ last'.json_block \in {KwReset, KwClear}
           => /\ cfg_parameters' = [cfg_parameters EXCEPT ![last'.guild] = None]
              /\ last'.reply = ResetReply
              /\ last'.after_reset => cfg_parameters' = cfg_parameters ]_vars

\* C6's case: a clear of a guild whose latest write was a reset or a clear
C6_Witness ==
    /\ last.guild \in Guilds
    /\ last.json_block = KwClear
    /\ last.after_reset
    /\ cfg_parameters[last.guild] = None
    /\ \E h \in Guilds : cfg_parameters[h] = ObjA

\* C7: show and list write nothing, leave every guild's stored parameters as
\* they were and display the invoking guild's stored parameters.
C7_ShowIsReadOnly ==
    [][ last'.json_block \in {KwShow, KwList}
        => /\ last'.writes = <<>>
           /\ cfg_parameters' = cfg_parameters
           /\ last'.reply = Display(cfg_parameters[last'.guild]) ]_vars

\* C7's case: a list in a guild with parameters stored that differ from another
\* guild's
C7_Witness ==
    /\ last.guild \in Guilds
    /\ last.json_block = KwList
    /\ cfg_parameters[last.guild] = ObjB
    /\ last.reply = Display(ObjB)
    /\ \E h \in Guilds : cfg_parameters[h] = ObjA

AllCompleted == \A t \in Tasks : tasks[t].pc = "idle"

\* a list without a repeated element
NoDuplicates(list) ==
    \A j, k \in 1..Len(list) : list[j] = list[k] => j = k

\* C9: once all add, remove and percent invocations have completed, the mirrors
\* equal the store, the stored whitelist has no duplicate and holds every
\* channel whose add replied and was not removed afterwards.
C9_MirrorAndStoreAgree ==
    AllCompleted =>
        \A g \in Guilds :
            /\ channels_whitelist[g] = cfg_channels_whitelist[g]
            /\ reply_percent[g] = cfg_reply_percent[g]
            /\ NoDuplicates(cfg_channels_whitelist[g])
            /\ \A c \in acked[g] : InList(cfg_channels_whitelist[g], c)

\* C10: a forget by an author without manage_messages in a guild whose
\* public_forget is false changes no guild's override_prompt_start_time and
\* reacts with the failure mark; any other forget sets the invoking guild's
\* entry to the message's creation time and leaves the other entries alone.
C10_ForgetOnlyWhenAuthorised ==
    [][ LET f == last_forget'
            old == override_prompt_start_time
            new == override_prompt_start_time'
        IN  IF ~f.manage_messages /\ ~cfg_public_forget[f.guild]
            THEN /\ new = old
                 /\ f.reaction = "cross_mark"
            ELSE /\ f.reaction = "check_mark"
                 /\ DOMAIN new = DOMAIN old \cup {f.guild}
                 /\ new[f.guild] = f.created_at
                 /\ \A h \in DOMAIN old \ {f.guild} : new[h] = old[h] ]_vars

\* C10's case: a refused forget in a guild whose entry an earlier forget set,
\* next to a guild with public_forget on whose entry a member set
C10_Witness ==
    /\ last_forget.guild \in Guilds
    /\ last_forget.reaction = "cross_mark"
    /\ ~cfg_public_forget[last_forget.guild]
    /\ last_forget.guild \in DOMAIN override_prompt_start_time
    /\ \E h \in Guilds : cfg_public_forget[h] /\ h \in DOMAIN override_prompt_start_time

=============================================================================
